---------------------------- MODULE Spec2Model ----------------------------
(***************************************************************************)
(* A model of quilkin's ClusterManager (src/cluster/cluster_manager.rs):   *)
(* the endpoint snapshot behind a parking_lot RwLock, the two gauges, the  *)
(* fixed() and dynamic() constructors, the flattening of a ClusterUpdate   *)
(* and the update-ingestion task spawned by dynamic(), which races the     *)
(* update channel (tokio mpsc) against the shutdown signal (tokio watch);  *)
(* and of FilterSet (src/filters/set.rs), the map of filter factories by   *)
(* name with its builders and its iterator.                                *)
(***************************************************************************)
EXTENDS Integers, Sequences, FiniteSets, Bags, TLC

(***************************************************************************)
(* Bounds of the model.                                                    *)
(***************************************************************************)
\* longest endpoint list of one locality in the universe of updates
MaxEps == 1
\* number of updates the producer sends in the specifications that keep
\* the history of the channel
MaxSends == 3
\* capacity of the bounded update channel (mpsc::channel(n))
Capacity == 2
\* number of concurrent readers of the shared manager
NumReaders == 2
\* number of them that read in the specifications with fairness
NumFairReaders == 1
\* longest sequence of filter factories handed to a FilterSet builder
MaxProvided == 3

(***************************************************************************)
(* Values.  Option<T> is a sequence of length 0 (None) or 1 (Some(x)).     *)
(***************************************************************************)
None == <<>>
Some(x) == <<x>>
IsSome(o) == Len(o) = 1
Unwrap(o) == o[1]

\* Endpoint::from_address(addr): an endpoint with that address and nothing else
EndpointFromAddress(a) == [address |-> a]

\* Endpoints::new(vec): fails on the empty list (the Err is `_empty_list_error`)
EndpointsNew(v) == IF Len(v) = 0 THEN [ok |-> FALSE, value |-> <<>>]
                   ELSE [ok |-> TRUE, value |-> v]

\* From<Endpoints> for UpstreamEndpoints: the view handed to the packet path
UpstreamFrom(ep) == [endpoints |-> ep, subset |-> None]

\* a ClusterUpdate is the sequence, in the map's iteration order, of its
\* (name, Cluster) entries; a Cluster's localities are the sequence of its
\* (locality, LocalityEndpoints) entries
Cluster(locs) == [localities |-> locs]
LocalityEndpoints(addrs) == [endpoints |-> addrs]

(***************************************************************************)
(* create_endpoints_from_update                                            *)
(***************************************************************************)
RECURSIVE MapAddresses(_)
\* endpoints.endpoints.iter().map(|ep| Endpoint::from_address(ep.address))
MapAddresses(addrs) ==
    IF addrs = <<>> THEN <<>>
    ELSE <<EndpointFromAddress(Head(addrs))>> \o MapAddresses(Tail(addrs))

\* a mutant: only the first locality of a cluster is read
FirstLocalityOnly(locs) ==
    IF locs = <<>> THEN <<>> ELSE MapAddresses(Head(locs)[2].endpoints)

RECURSIVE cluster_endpoints(_)
\* cluster.localities.iter().map(|(_, endpoints)| ...).flatten()
cluster_endpoints(locs) ==
    IF locs = <<>> THEN <<>>
    ELSE MapAddresses(Head(locs)[2].endpoints) \o cluster_endpoints(Tail(locs))

RECURSIVE fold_clusters(_, _)
\* update.iter().fold(vec![], |mut endpoints, (_name, cluster)| ...)
fold_clusters(update, endpoints) ==
    IF update = <<>> THEN endpoints
    ELSE fold_clusters(Tail(update),
                       endpoints \o cluster_endpoints(Head(update)[2].localities))

\* a mutant: the empty list is wrapped like any other
EmptyListIsSome(update) == Some(fold_clusters(update, <<>>))

create_endpoints_from_update(update) ==
    LET r == EndpointsNew(fold_clusters(update, <<>>))
    IN  IF r.ok THEN Some(r.value) ELSE None

(***************************************************************************)
(* The updates of the model.                                               *)
(***************************************************************************)
Addresses == {80, 81}
ClusterNames == <<"cluster-1", "cluster-2">>
LocalityKeys == <<"none", "zone-a">>

SeqsUpTo(S, n) == UNION {[1..k -> S] : k \in 0..n}

RECURSIVE MapsOver(_, _)
\* the maps with keys among `keys`, iterated in that order, and values in V
MapsOver(keys, V) ==
    IF keys = <<>> THEN {<<>>}
    ELSE LET rest == MapsOver(Tail(keys), V)
         IN  rest \cup {<<<<Head(keys), v>>>> \o m : v \in V, m \in rest}

Reverse(s) == [i \in 1..Len(s) |-> s[Len(s) + 1 - i]]

ClusterUniverse ==
    {Cluster(m) : m \in MapsOver(LocalityKeys,
                                 {LocalityEndpoints(a) : a \in SeqsUpTo(Addresses, MaxEps)})}

\* every update over the names, keys and addresses above, in both iteration
\* orders of the cluster map
UpdateUniverse ==
    MapsOver(ClusterNames, ClusterUniverse)
      \cup MapsOver(Reverse(ClusterNames), ClusterUniverse)

\* the updates of tests::dynamic_cluster_manager_metrics
TestInitialUpdate ==
    << <<"cluster-1", Cluster(<< <<"none", LocalityEndpoints(<<80, 81>>)>> >>)>> >>
TestSecondUpdate ==
    << <<"cluster-1", Cluster(<< <<"none", LocalityEndpoints(<<80>>)>> >>)>>,
       <<"cluster-2", Cluster(<< <<"none", LocalityEndpoints(<<82, 83>>)>> >>)>> >>
\* one cluster whose only locality holds no endpoint
EmptyLocalityUpdate ==
    << <<"cluster-1", Cluster(<< <<"none", LocalityEndpoints(<<>>)>> >>)>> >>
\* no cluster at all
NoClustersUpdate == <<>>

\* the arguments of create_endpoints_from_update when it is checked on its own
FlattenInputs ==
    UpdateUniverse
      \cup {TestInitialUpdate, TestSecondUpdate, EmptyLocalityUpdate, NoClustersUpdate}

InitialUpdates == {TestInitialUpdate, NoClustersUpdate}
ChannelUpdates == {TestSecondUpdate, EmptyLocalityUpdate}
\* the arguments of fixed(): non-empty Endpoints values
FixedEndpoints ==
    {<<EndpointFromAddress(80), EndpointFromAddress(81)>>, <<EndpointFromAddress(80)>>}


(***************************************************************************)
(* State.                                                                  *)
(***************************************************************************)
VARIABLES
    mode,             \* "fixed" | "dynamic": the constructor called ("pure": none)
    config,           \* its argument: Endpoints (fixed) or the initial ClusterUpdate
    registry_ok,      \* whether the metrics registry accepts the two gauges
    ctor,             \* position of the constructor call
    endpoints,        \* ClusterManager.endpoints: Option<Endpoints>
    active_endpoints, \* Metrics.active_endpoints gauge
    active_clusters,  \* Metrics.active_clusters gauge
    rw_writer,        \* RwLock: the writer bit (a writer holds or awaits the lock)
    rw_readers,       \* RwLock: number of read guards alive
    tpc,              \* position of the ingestion task
    update,           \* the task's local `update`: Option<ClusterUpdate>
    chan,             \* the update channel's buffer
    tx_open,          \* the update channel's Sender is alive
    shutdown,         \* the watch channel: "idle" | "fired" | "dropped"
    rpc,              \* position of each reader
    ret,              \* what each reader's get_all_endpoints() returned
    sent,             \* history: the updates whose send completed, in order
    taken,            \* history: number of updates the task took from the channel
    installed,        \* history: the snapshots the task installed, in order
    send_failed,      \* history: a send was refused because the receiver is gone
    fired_at,         \* history: Len(sent) when the shutdown signal fired, else -1
    exit,             \* history: the branch the task returned from, "none" before
    f_arg, f_res, f_done, \* a call of create_endpoints_from_update on its own
    fs_defaults,      \* FilterSet: the builder called is default_with (else with)
    fs_provided,      \* FilterSet: the `filters` argument of the builder
    fs_pending,       \* from_iter: what `iter` has not yielded yet
    fs_map,           \* FilterSet.0: the map, as its set of (name, factory) entries
    fs_inner,         \* IntoIter.inner: the entries not yielded yet
    fs_out,           \* the bag of factories IntoIter::next has returned
    fs_pc             \* position in the FilterSet's life

vars == <<mode, config, registry_ok, ctor, endpoints, active_endpoints,
          active_clusters, rw_writer, rw_readers, tpc, update, chan, tx_open,
          shutdown, rpc, ret, sent, taken, installed, send_failed, fired_at,
          exit, f_arg, f_res, f_done, fs_defaults, fs_provided, fs_pending,
          fs_map, fs_inner, fs_out, fs_pc>>

Readers == 1..NumReaders

mgr_vars == <<endpoints, active_endpoints, active_clusters>>
lock_vars == <<rw_writer, rw_readers>>
ctor_vars == <<mode, config, registry_ok, ctor>>
task_vars == <<tpc, update>>
env_vars == <<tx_open, shutdown>>
reader_vars == <<rpc, ret>>
hist_vars == <<sent, taken, installed, send_failed, fired_at, exit>>
filter_vars == <<fs_defaults, fs_provided, fs_pending, fs_map, fs_inner, fs_out,
                 fs_pc>>
pure_vars == <<f_arg, f_res, f_done, filter_vars>>

(***************************************************************************)
(* ClusterManager's methods.                                               *)
(***************************************************************************)
\* get_all_endpoints(&self): self.endpoints.clone().map(|ep| ep.into())
get_all_endpoints(eps) ==
    IF eps = None THEN None ELSE Some(UpstreamFrom(Unwrap(eps)))

\* a mutant: the clusters gauge is incremented by the update's cluster count
ClustersGaugeAdds(u) == active_clusters + Len(u)

\* a mutant: the clusters gauge is left as the previous update set it
ClustersGaugeStale(u) == active_clusters

\* metrics.active_clusters.set(update.len() as i64)
ClustersGauge(u) == Len(u)

\* a mutant: the endpoints gauge counts clusters
EndpointsGaugeCountsClusters(u) == Len(u)

\* a mutant: the endpoints gauge is written only when the flattening is Some
EndpointsGaugeKeptOnNone(u) ==
    LET e == create_endpoints_from_update(u)
    IN  IF IsSome(e) THEN Len(Unwrap(e)) ELSE active_endpoints

\* metrics.active_endpoints.set(create_endpoints_from_update(update)
\*     .map(|ep| ep.as_ref().len() as i64).unwrap_or_default())
EndpointsGauge(u) ==
    LET e == create_endpoints_from_update(u)
    IN  IF IsSome(e) THEN Len(Unwrap(e)) ELSE 0

\* a mutant: fixed() leaves the endpoints gauge at its default
FixedGaugeUnset(eps) == 0

\* the gauge fixed() sets: cm.endpoints.as_ref().map(|ep| ep.as_ref().len())
\*     .unwrap_or_default() as i64
FixedEndpointsGauge(eps) == IF IsSome(eps) THEN Len(Unwrap(eps)) ELSE 0

\* the memory of `endpoints` while `self.endpoints = endpoints` is under way:
\* the old value is being dropped and the new one moved in
Unwritten == [address |-> 0]
Contents(o) == IF IsSome(o) THEN Unwrap(o) ELSE <<>>
Torn(old, new) == Some(Contents(old) \o Contents(new) \o <<Unwritten>>)

\* the update channel's Receiver is alive: it is dropped when dynamic() fails
\* and when the task returns
RxOpen == ctor # "failed" /\ tpc # "done"

(***************************************************************************)
(* Init: before the constructor is called.  The channels exist already,    *)
(* their receivers are the constructor's arguments.                        *)
(***************************************************************************)
InitCommon ==
    /\ ctor = "start"
    /\ endpoints = None
    /\ active_endpoints = 0
    /\ active_clusters = 0
    /\ rw_writer = FALSE
    /\ rw_readers = 0
    /\ tpc = "unspawned"
    /\ update = None
    /\ chan = <<>>
    /\ tx_open = TRUE
    /\ shutdown = "idle"
    /\ rpc = [r \in Readers |-> "idle"]
    /\ ret = [r \in Readers |-> None]
    /\ sent = <<>>
    /\ taken = 0
    /\ installed = <<>>
    /\ send_failed = FALSE
    /\ fired_at = -1
    /\ exit = "none"

\* no FilterSet is being built
NoFilterSet ==
    /\ fs_defaults = FALSE /\ fs_provided = <<>> /\ fs_pending = <<>>
    /\ fs_map = {} /\ fs_inner = {} /\ fs_out = EmptyBag
    /\ fs_pc = "none"

Init ==
    /\ \/ mode = "fixed" /\ config \in FixedEndpoints
       \/ mode = "dynamic" /\ config \in InitialUpdates
    /\ registry_ok \in BOOLEAN
    /\ InitCommon
    /\ f_arg = <<>> /\ f_res = None /\ f_done = FALSE
    /\ NoFilterSet

(***************************************************************************)
(* The constructors.                                                       *)
(***************************************************************************)
\* a mutant: a manager without endpoints is refused
NewRefusesNone(eps) == registry_ok /\ IsSome(eps)

\* ClusterManager::new(metrics_registry, endpoints) is Ok: Metrics::new is its
\* only `?`, whatever `endpoints` is
NewOk(eps) == registry_ok

\* fixed(), line 71: Self::new(metrics_registry, Some(endpoints))?
FixedNew ==
    /\ mode = "fixed" /\ ctor = "start"
    /\ IF NewOk(Some(config))
       THEN /\ endpoints' = Some(config)
            /\ ctor' = "set_gauge"
       ELSE /\ endpoints' = endpoints
            /\ ctor' = "failed"
    /\ UNCHANGED <<mode, config, registry_ok, active_endpoints, active_clusters,
                   lock_vars, task_vars, chan, env_vars, reader_vars, hist_vars,
                   pure_vars>>

\* fixed(), lines 73-79: set the endpoints gauge, return the shared manager
FixedSetGauge ==
    /\ mode = "fixed" /\ ctor = "set_gauge"
    /\ active_endpoints' = FixedEndpointsGauge(endpoints)
    /\ ctor' = "returned"
    /\ UNCHANGED <<mode, config, registry_ok, endpoints, active_clusters,
                   lock_vars, task_vars, chan, env_vars, reader_vars, hist_vars,
                   pure_vars>>

\* dynamic(), lines 99-104: flatten the initial update and build the manager;
\* on Err the function returns and its arguments, the receivers, are dropped
DynamicNew ==
    /\ mode = "dynamic" /\ ctor = "start"
    /\ IF NewOk(create_endpoints_from_update(config))
       THEN /\ endpoints' = create_endpoints_from_update(config)
            /\ ctor' = "set_clusters"
            /\ chan' = chan
       ELSE /\ endpoints' = endpoints
            /\ ctor' = "failed"
            /\ chan' = <<>>
    /\ UNCHANGED <<mode, config, registry_ok, active_endpoints, active_clusters,
                   lock_vars, task_vars, env_vars, reader_vars, hist_vars,
                   pure_vars>>

\* dynamic(), line 106 -> line 122
DynamicSetClusters ==
    /\ mode = "dynamic" /\ ctor = "set_clusters"
    /\ active_clusters' = ClustersGauge(config)
    /\ ctor' = "set_endpoints"
    /\ UNCHANGED <<mode, config, registry_ok, endpoints, active_endpoints,
                   lock_vars, task_vars, chan, env_vars, reader_vars, hist_vars,
                   pure_vars>>

\* dynamic(), line 106 -> lines 123-127
DynamicSetEndpoints ==
    /\ mode = "dynamic" /\ ctor = "set_endpoints"
    /\ active_endpoints' = EndpointsGauge(config)
    /\ ctor' = "spawn"
    /\ UNCHANGED <<mode, config, registry_ok, endpoints, active_clusters,
                   lock_vars, task_vars, chan, env_vars, reader_vars, hist_vars,
                   pure_vars>>

\* a mutant: the task is spawned as soon as the manager exists
SpawnBeforeMetrics == ctor \in {"set_clusters", "set_endpoints", "spawn"}

\* where dynamic() calls spawn_updater: after the gauges are set
SpawnPoint == ctor = "spawn"

\* dynamic(), lines 110-116: tokio::spawn; the task may run from here on
DynamicSpawn ==
    /\ mode = "dynamic" /\ SpawnPoint /\ tpc = "unspawned"
    /\ tpc' = "select"
    /\ ctor' = IF ctor = "spawn" THEN "return" ELSE ctor
    /\ UNCHANGED <<mode, config, registry_ok, mgr_vars, lock_vars, update, chan,
                   env_vars, reader_vars, hist_vars, pure_vars>>

\* dynamic(), line 118: Ok(cluster_manager)
DynamicReturn ==
    /\ mode = "dynamic" /\ ctor = "return"
    /\ ctor' = "returned"
    /\ UNCHANGED <<mode, config, registry_ok, mgr_vars, lock_vars, task_vars, chan,
                   env_vars, reader_vars, hist_vars, pure_vars>>

(***************************************************************************)
(* The ingestion task: spawn_updater, lines 167-190.                       *)
(***************************************************************************)
\* cluster_updates_rx.recv() is ready with Some(update)
RecvReadySome == chan # <<>>
\* a mutant: an empty buffer is taken for a closed channel
ClosedWhenEmpty == chan = <<>>

\* a mutant: the closure of the channel is never reported
ClosedNeverSeen == FALSE

\* a mutant: the closure is reported as soon as the sender is dropped
ClosedWhenDropped == ~tx_open

\* cluster_updates_rx.recv() is ready with None: buffer empty, sender dropped
RecvReadyNone == chan = <<>> /\ ~tx_open

\* a mutant: a select biased to its first branch, the update channel
ShutdownAfterUpdates == shutdown # "idle" /\ ~RecvReadySome /\ ~RecvReadyNone

\* shutdown_rx.changed() is ready: a value was sent (Ok) or the watch Sender
\* was dropped (Err); the pattern `_` takes either
ShutdownReady == shutdown # "idle"

\* a mutant: the newest buffered update is handed out first
RecvNewest(c) == c[Len(c)]

\* the value recv() hands out: the oldest one buffered
RecvValue(c) == Head(c)

\* a mutant: the snapshot is replaced without the gauges being refreshed
SwapWithoutMetrics == "write_lock"

\* line 173: the first statement of the Some(update) arm refreshes the gauges
AfterRecv == "set_clusters"

\* line 170-172: the update branch wins with Some(update).  `h`: the
\* specification records the history of the channel
TaskRecvSome(h) ==
    /\ tpc = "select" /\ RecvReadySome
    /\ update' = Some(RecvValue(chan))
    /\ chan' = Tail(chan)
    /\ taken' = IF h THEN taken + 1 ELSE taken
    /\ tpc' = AfterRecv
    /\ UNCHANGED <<ctor_vars, mgr_vars, lock_vars, env_vars, reader_vars,
                   sent, installed, send_failed, fired_at, exit, pure_vars>>

\* lines 178-181: the update branch wins with None; the task returns
TaskRecvNone ==
    /\ tpc = "select" /\ RecvReadyNone
    /\ tpc' = "done"
    /\ exit' = "closed"
    /\ UNCHANGED <<ctor_vars, mgr_vars, lock_vars, update, chan, env_vars,
                   reader_vars, sent, taken, installed, send_failed, fired_at,
                   pure_vars>>

\* a mutant: the shutdown branch logs and the loop goes on
ShutdownLoopsOn == "select"

\* line 186: return
AfterShutdown == "done"

\* lines 184-187: the shutdown branch wins; the task returns, which drops the
\* receiver and what the channel still buffers
TaskShutdown ==
    /\ tpc = "select" /\ ShutdownReady
    /\ tpc' = AfterShutdown
    /\ exit' = "shutdown"
    /\ chan' = <<>>
    /\ UNCHANGED <<ctor_vars, mgr_vars, lock_vars, update, env_vars,
                   reader_vars, sent, taken, installed, send_failed, fired_at,
                   pure_vars>>

\* line 173 -> line 122
TaskSetClusters ==
    /\ tpc = "set_clusters"
    /\ active_clusters' = ClustersGauge(Unwrap(update))
    /\ tpc' = "set_endpoints"
    /\ UNCHANGED <<ctor_vars, endpoints, active_endpoints, lock_vars, update, chan,
                   env_vars, reader_vars, hist_vars, pure_vars>>

\* line 173 -> lines 123-127
TaskSetEndpoints ==
    /\ tpc = "set_endpoints"
    /\ active_endpoints' = EndpointsGauge(Unwrap(update))
    /\ tpc' = "write_lock"
    /\ UNCHANGED <<ctor_vars, endpoints, active_clusters, lock_vars, update, chan,
                   env_vars, reader_vars, hist_vars, pure_vars>>

\* line 176, cluster_manager.write(): the writer sets the lock's writer bit,
\* which keeps new readers out ...
TaskLockExclusive ==
    /\ tpc = "write_lock" /\ ~rw_writer
    /\ rw_writer' = TRUE
    /\ tpc' = "wait_readers"
    /\ UNCHANGED <<ctor_vars, mgr_vars, rw_readers, update, chan, env_vars,
                   reader_vars, hist_vars, pure_vars>>

\* a mutant: the second flattening stops after the first cluster
SnapshotOfFirstCluster(u) ==
    create_endpoints_from_update(SubSeq(u, 1, IF Len(u) = 0 THEN 0 ELSE 1))

\* line 174: let update = Self::create_endpoints_from_update(&update)
NewSnapshot(u) == create_endpoints_from_update(u)

\* a mutant: the write guard is handed out while read guards are alive
WriterIgnoresReaders == TRUE

\* RwLock::write() returns once no read guard is alive
ReadersGone == rw_readers = 0

\* ... and waits for the read guards to go; then update(), line 57, starts
\* writing self.endpoints
TaskBeginWrite ==
    /\ tpc = "wait_readers" /\ ReadersGone
    /\ endpoints' = Torn(endpoints, NewSnapshot(Unwrap(update)))
    /\ tpc' = "writing"
    /\ UNCHANGED <<ctor_vars, active_endpoints, active_clusters, lock_vars, update,
                   chan, env_vars, reader_vars, hist_vars, pure_vars>>

\* line 57 completes, the write guard is dropped at the end of line 176 and
\* the loop goes back to the select
TaskFinishWrite(h) ==
    /\ tpc = "writing"
    /\ endpoints' = NewSnapshot(Unwrap(update))
    /\ installed' = IF h THEN Append(installed, NewSnapshot(Unwrap(update)))
                    ELSE installed
    /\ rw_writer' = FALSE
    /\ update' = None
    /\ tpc' = "select"
    /\ UNCHANGED <<ctor_vars, active_endpoints, active_clusters, rw_readers, chan,
                   env_vars, reader_vars, sent, taken, send_failed, fired_at, exit,
                   pure_vars>>

(***************************************************************************)
(* The environment: the producer of updates, the shutdown coordinator.     *)
(***************************************************************************)
\* the buffer after update_tx.send(u).await completed
Enqueue(c, u) == Append(c, u)

\* send(u).await completes only when the buffer has room; otherwise it waits
HasCapacity(c) == Len(c) < Capacity

\* update_tx.send(u).await, as at line 291, the receiver being alive
Send(u, h) ==
    /\ mode = "dynamic" /\ tx_open /\ RxOpen
    /\ h => Len(sent) < MaxSends
    /\ HasCapacity(chan)
    /\ chan' = Enqueue(chan, u)
    /\ sent' = IF h THEN Append(sent, u) ELSE sent
    /\ UNCHANGED <<ctor_vars, mgr_vars, lock_vars, task_vars, env_vars,
                   reader_vars, taken, installed, send_failed, fired_at, exit,
                   pure_vars>>

\* update_tx.send(u).await after the receiver was dropped: Err(SendError(u))
SendRefused ==
    /\ mode = "dynamic" /\ tx_open /\ ~RxOpen /\ ~send_failed
    /\ send_failed' = TRUE
    /\ UNCHANGED <<ctor_vars, mgr_vars, lock_vars, task_vars, chan, env_vars,
                   reader_vars, sent, taken, installed, fired_at, exit, pure_vars>>

\* drop(update_tx)
DropSender ==
    /\ mode = "dynamic" /\ tx_open
    /\ tx_open' = FALSE
    /\ UNCHANGED <<ctor_vars, mgr_vars, lock_vars, task_vars, chan, shutdown,
                   reader_vars, hist_vars, pure_vars>>

\* shutdown_tx.send(()): the shutdown signal is fired
FireShutdown ==
    /\ mode = "dynamic" /\ shutdown = "idle"
    /\ shutdown' = "fired"
    /\ fired_at' = Len(sent)
    /\ UNCHANGED <<ctor_vars, mgr_vars, lock_vars, task_vars, chan, tx_open,
                   reader_vars, sent, taken, installed, send_failed, exit,
                   pure_vars>>

\* drop(shutdown_tx) without a send (the test keeps `_shutdown_tx` alive)
DropShutdownSender ==
    /\ mode = "dynamic" /\ shutdown = "idle"
    /\ shutdown' = "dropped"
    /\ UNCHANGED <<ctor_vars, mgr_vars, lock_vars, task_vars, chan, tx_open,
                   reader_vars, hist_vars, pure_vars>>

(***************************************************************************)
(* Readers: cm.read().get_all_endpoints() on the handle a constructor      *)
(* returned.                                                               *)
(***************************************************************************)
\* a mutant: a read guard is handed out whatever the writer does
ReadIgnoresWriter == TRUE

\* RwLock::read() succeeds while the writer bit is clear
CanRead == ~rw_writer

ReaderAcquire(r) ==
    /\ ctor = "returned" /\ rpc[r] # "locked"
    /\ CanRead
    /\ rw_readers' = rw_readers + 1
    /\ rpc' = [rpc EXCEPT ![r] = "locked"]
    /\ ret' = [ret EXCEPT ![r] = None]
    /\ UNCHANGED <<ctor_vars, mgr_vars, rw_writer, task_vars, chan, env_vars,
                   hist_vars, pure_vars>>

\* get_all_endpoints() under the read guard, which is then dropped
ReaderRead(r) ==
    /\ rpc[r] = "locked"
    /\ ret' = [ret EXCEPT ![r] = get_all_endpoints(endpoints)]
    /\ rw_readers' = rw_readers - 1
    /\ rpc' = [rpc EXCEPT ![r] = "returned"]
    /\ UNCHANGED <<ctor_vars, mgr_vars, rw_writer, task_vars, chan, env_vars,
                   hist_vars, pure_vars>>

(***************************************************************************)
(* Specifications.                                                         *)
(***************************************************************************)
Construct ==
    \/ FixedNew
    \/ FixedSetGauge
    \/ DynamicNew
    \/ DynamicSetClusters
    \/ DynamicSetEndpoints
    \/ DynamicSpawn
    \/ DynamicReturn

TaskApply ==
    \/ TaskSetClusters
    \/ TaskSetEndpoints
    \/ TaskLockExclusive
    \/ TaskBeginWrite

Environment ==
    \/ SendRefused
    \/ DropSender
    \/ FireShutdown
    \/ DropShutdownSender

\* the program with the readers of R; `h`: the history of the channel is
\* recorded and the sends are bounded
Program(h, R) ==
    \/ Construct
    \/ TaskRecvSome(h)
    \/ TaskRecvNone
    \/ TaskShutdown
    \/ TaskApply
    \/ TaskFinishWrite(h)
    \/ \E u \in ChannelUpdates : Send(u, h)
    \/ Environment
    \/ \E r \in R : ReaderAcquire(r)
    \/ \E r \in R : ReaderRead(r)

Next == Program(TRUE, Readers)

Spec == Init /\ [][Next]_vars

(***************************************************************************)
(* Fairness.  The constructor is straight-line code.  The tokio runtime    *)
(* polls the spawned task whenever one of the select's branches is ready,  *)
(* and select! polls its branches in random order, so a branch that is     *)
(* ready again and again wins eventually (strong fairness).  Between the   *)
(* select and the end of the loop body the task only awaits the write      *)
(* lock; parking_lot's writer bit keeps new readers out and a reader never *)
(* suspends under its guard, so the guards alive are dropped.  Nothing is  *)
(* assumed of the producer, the shutdown coordinator or the readers'       *)
(* arrival.                                                                *)
(***************************************************************************)
FairReaders == 1..NumFairReaders

Fairness(h) ==
    /\ WF_vars(Construct)
    /\ WF_vars(TaskRecvSome(h) \/ TaskRecvNone \/ TaskShutdown)
    /\ SF_vars(TaskShutdown)
    /\ WF_vars(TaskApply)
    /\ WF_vars(TaskFinishWrite(h))
    /\ \A r \in FairReaders : WF_vars(ReaderRead(r))

NextFair == Program(TRUE, FairReaders)

FairSpec == Init /\ [][NextFair]_vars /\ Fairness(TRUE)

\* a producer that never runs out of updates: the history is not recorded
NextUnbounded == Program(FALSE, FairReaders)

FairUnbounded == Init /\ [][NextUnbounded]_vars /\ Fairness(FALSE)

(***************************************************************************)
(* create_endpoints_from_update on its own, over every update of           *)
(* FlattenInputs.                                                          *)
(***************************************************************************)
InitFlatten ==
    /\ mode = "pure" /\ config = <<>> /\ registry_ok = TRUE
    /\ InitCommon
    /\ f_arg \in FlattenInputs /\ f_res = None /\ f_done = FALSE
    /\ NoFilterSet

FlattenCall ==
    /\ mode = "pure" /\ ~f_done
    /\ f_res' = create_endpoints_from_update(f_arg)
    /\ f_done' = TRUE
    /\ UNCHANGED <<ctor_vars, mgr_vars, lock_vars, task_vars, chan, env_vars,
                   reader_vars, hist_vars, f_arg, filter_vars>>

NextFlatten == FlattenCall

SpecFlatten == InitFlatten /\ [][NextFlatten]_vars

(***************************************************************************)
(* FilterSet (src/filters/set.rs).  A factory is its name, the key of the  *)
(* map, and an `id` that tells the factories of one name apart.            *)
(***************************************************************************)
Factory(n, i) == [name |-> n, id |-> i]

\* FilterFactory::name() of the seven factories default_with builds
DefaultNames ==
    <<"Debug", "LocalRateLimit", "ConcatBytes", "LoadBalancer", "CaptureBytes",
      "TokenRouter", "Compress">>

\* the array of default_with, in its order
DefaultFactories == [i \in 1..Len(DefaultNames) |-> Factory(DefaultNames[i], 0)]

\* the factories a caller provides: two that carry the name of a default,
\* one that does not, two instances of each
ProvidedNames == {"Debug", "Compress", "Custom"}
ProvidedIds == {1, 2}
ProvidedFactories == {Factory(n, i) : n \in ProvidedNames, i \in ProvidedIds}
ProvidedUniverse == SeqsUpTo(ProvidedFactories, MaxProvided)

\* a mutant: an entry already in the map is kept
InsertKeepsOld(map, k, v) ==
    IF \E e \in map : e[1] = k THEN map ELSE map \cup {<<k, v>>}

\* HashMap::insert(k, v): the entry of key k, if any, is replaced
insert(map, k, v) == {e \in map : e[1] # k} \cup {<<k, v>>}

InitFilters ==
    /\ mode = "filters" /\ config = <<>> /\ registry_ok = TRUE
    /\ InitCommon
    /\ f_arg = <<>> /\ f_res = None /\ f_done = FALSE
    /\ fs_defaults \in BOOLEAN
    /\ fs_provided \in ProvidedUniverse
    /\ fs_pending = <<>>
    /\ fs_map = {} /\ fs_inner = {} /\ fs_out = EmptyBag
    /\ fs_pc = "start"

other_vars == <<ctor_vars, mgr_vars, lock_vars, task_vars, chan, env_vars,
                reader_vars, hist_vars, f_arg, f_res, f_done>>

\* default_with(base, filters): the seven defaults chained with `filters` are
\* handed to with(), that is from_iter(), which starts from an empty map
FilterSetDefaultWith ==
    /\ fs_pc = "start" /\ fs_defaults
    /\ fs_pending' = DefaultFactories \o fs_provided
    /\ fs_map' = {}
    /\ fs_pc' = "loop"
    /\ UNCHANGED <<other_vars, fs_defaults, fs_provided, fs_inner, fs_out>>

\* with(filters): from_iter(filters), no defaults
FilterSetWith ==
    /\ fs_pc = "start" /\ ~fs_defaults
    /\ fs_pending' = fs_provided
    /\ fs_map' = {}
    /\ fs_pc' = "loop"
    /\ UNCHANGED <<other_vars, fs_defaults, fs_provided, fs_inner, fs_out>>

\* from_iter, lines 89-91: set.0.insert(factory.name(), factory)
FromIterInsert ==
    /\ fs_pc = "loop" /\ fs_pending # <<>>
    /\ fs_map' = insert(fs_map, Head(fs_pending).name, Head(fs_pending))
    /\ fs_pending' = Tail(fs_pending)
    /\ UNCHANGED <<other_vars, fs_defaults, fs_provided, fs_inner, fs_out, fs_pc>>

\* from_iter, line 93: the iterator is exhausted, the set is returned
FromIterReturn ==
    /\ fs_pc = "loop" /\ fs_pending = <<>>
    /\ fs_pc' = "built"
    /\ UNCHANGED <<other_vars, fs_defaults, fs_provided, fs_pending, fs_map,
                   fs_inner, fs_out>>

\* into_iter(self): the map is moved into the iterator
FilterSetIntoIter ==
    /\ fs_pc = "built"
    /\ fs_inner' = fs_map
    /\ fs_map' = {}
    /\ fs_pc' = "iter"
    /\ UNCHANGED <<other_vars, fs_defaults, fs_provided, fs_pending, fs_out>>

\* IntoIter::next, Some: the hash map's iterator hands out one of the entries
\* left, in an order that is the map's own; the key is dropped
IntoIterNextSome ==
    /\ fs_pc = "iter"
    /\ \E e \in fs_inner :
         /\ fs_inner' = fs_inner \ {e}
         /\ fs_out' = fs_out (+) SetToBag({e[2]})
    /\ UNCHANGED <<other_vars, fs_defaults, fs_provided, fs_pending, fs_map, fs_pc>>

\* IntoIter::next, None: no entry is left
IntoIterNextNone ==
    /\ fs_pc = "iter" /\ fs_inner = {}
    /\ fs_pc' = "done"
    /\ UNCHANGED <<other_vars, fs_defaults, fs_provided, fs_pending, fs_map,
                   fs_inner, fs_out>>

NextFilters ==
    \/ FilterSetDefaultWith
    \/ FilterSetWith
    \/ FromIterInsert
    \/ FromIterReturn
    \/ FilterSetIntoIter
    \/ IntoIterNextSome
    \/ IntoIterNextNone

SpecFilters == InitFilters /\ [][NextFilters]_vars

(***************************************************************************)
(* C10.  The raw addresses of an update, counted and ranked without the    *)
(* fold: a position is (cluster, locality, index in the locality's list).  *)
(***************************************************************************)
Positions(u) ==
    UNION {UNION {{<<c, l, e>> : e \in 1..Len(u[c][2].localities[l][2].endpoints)}
                  : l \in 1..Len(u[c][2].localities)}
           : c \in 1..Len(u)}

Before(p, q) ==
    \/ p[1] < q[1]
    \/ p[1] = q[1] /\ p[2] < q[2]
    \/ p[1] = q[1] /\ p[2] = q[2] /\ p[3] < q[3]

Rank(u, p) == Cardinality({q \in Positions(u) : Before(q, p)}) + 1

RawAddress(u, p) == u[p[1]][2].localities[p[2]][2].endpoints[p[3]]

\* C10: create_endpoints_from_update returns None exactly when the update
\* holds no raw address at all (no cluster, or only empty localities), and
\* otherwise Some of a sequence with one endpoint per raw address of every
\* locality of every cluster, in iteration order, repeated addresses kept, so
\* that its length is the total number of raw addresses.
C10_FlattenIsConcatenation ==
    f_done =>
        LET P == Positions(f_arg)
        IN  /\ (f_res = None) <=> (P = {})
            /\ P # {} =>
                 /\ IsSome(f_res)
                 /\ Len(Unwrap(f_res)) = Cardinality(P)
                 /\ \A p \in P :
                      Unwrap(f_res)[Rank(f_arg, p)]
                        = EndpointFromAddress(RawAddress(f_arg, p))

\* two clusters, one of them with two localities, and an address that occurs
\* twice in the result
C10_Witness ==
    /\ f_done /\ IsSome(f_res)
    /\ Len(f_arg) = 2
    /\ \E c \in 1..2 : Len(f_arg[c][2].localities) = 2
    /\ \E i, j \in 1..Len(Unwrap(f_res)) :
         i # j /\ Unwrap(f_res)[i] = Unwrap(f_res)[j]

(***************************************************************************)
(* Claims about the manager and its task.                                  *)
(***************************************************************************)
\* the updates the manager was given: the initial one and those taken from
\* the channel
Received == {config} \cup {sent[i] : i \in 1..taken}

\* a returned value v is the complete flattening of update u
IsFlatteningOf(v, u) ==
    LET P == Positions(u)
    IN  IF P = {} THEN v = None
        ELSE /\ IsSome(v)
             /\ Len(Unwrap(v).endpoints) = Cardinality(P)
             /\ \A p \in P : Unwrap(v).endpoints[Rank(u, p)].address = RawAddress(u, p)

\* C1: for a dynamic manager, whatever the interleaving of the readers with
\* the ingestion task, every value get_all_endpoints returned is the complete
\* flattening of one single update among those the manager was given (the
\* initial one or one received on the channel), None when that update holds
\* no endpoint; never a mix of two updates, never a half-written snapshot.
C1_ReadersSeeOneUpdate ==
    mode = "dynamic" =>
        \A r \in Readers :
            rpc[r] = "returned" => \E u \in Received : IsFlatteningOf(ret[r], u)

\* a reader holds its guard while the writer waits for it, and another reader
\* has returned the flattening of the test's second update
C1_Witness ==
    /\ mode = "dynamic" /\ tpc = "wait_readers"
    /\ \E r1, r2 \in Readers :
         /\ r1 # r2
         /\ rpc[r1] = "locked"
         /\ rpc[r2] = "returned"
         /\ IsSome(ret[r2])
         /\ Len(Unwrap(ret[r2]).endpoints) = 3
         /\ IsFlatteningOf(ret[r2], TestSecondUpdate)

\* C2: the task applies every update it takes exactly once, one at a time
\* and in the order sent: the snapshots installed are the flattenings of a
\* prefix of the updates sent, at most one taken update is not installed yet
\* and it is the one the task holds, and while the receiver lives every update
\* sent and not taken is in the channel, in order, the channel never holding
\* more than its capacity (the producer waits, no update is lost).
C2_AppliedInOrderOnce ==
    mode = "dynamic" =>
        /\ Len(installed) <= taken /\ taken <= Len(sent)
        /\ taken - Len(installed) \in {0, 1}
        /\ \A i \in 1..Len(installed) :
             IsFlatteningOf(get_all_endpoints(installed[i]), sent[i])
        /\ update = IF taken > Len(installed) THEN Some(sent[taken]) ELSE None
        /\ tpc \in {"unspawned", "select", "done"} => taken = Len(installed)
        /\ RxOpen => chan = SubSeq(sent, taken + 1, Len(sent))
        /\ Len(chan) <= Capacity

\* two different updates were sent, the first is installed, and the channel
\* is full
C2_Witness ==
    /\ mode = "dynamic"
    /\ Len(installed) >= 1 /\ Len(sent) >= 2 /\ sent[1] # sent[2]
    /\ IsFlatteningOf(get_all_endpoints(installed[1]), sent[1])
    /\ Len(chan) = Capacity

\* the counts of update u, without the fold
EndpointCount(u) == Cardinality(Positions(u))

\* the state dynamic() builds from its initial update
InitialState ==
    /\ endpoints = create_endpoints_from_update(config)
    /\ IsFlatteningOf(get_all_endpoints(endpoints), config)
    /\ active_endpoints = EndpointCount(config)
    /\ active_clusters = Len(config)

\* C8: once dynamic() has returned Ok, and as long as no message was taken
\* from the channel, the snapshot is the flattening of the initial update and
\* the gauges are its endpoint count and its number of clusters; and this
\* holds from the moment the task is spawned.
C8_DynamicInitialState ==
    (mode = "dynamic" /\ taken = 0 /\ (ctor = "returned" \/ tpc # "unspawned"))
        => InitialState

\* the test's case: gauges (2, 1) while an update waits in the channel
C8_Witness ==
    /\ mode = "dynamic" /\ ctor = "returned" /\ taken = 0 /\ tpc = "select"
    /\ config = TestInitialUpdate
    /\ chan # <<>>
    /\ active_endpoints = 2 /\ active_clusters = 1
    /\ IsSome(endpoints) /\ Len(Unwrap(endpoints)) = 2

\* C9: a manager fixed() built from n endpoints has its endpoints gauge at n,
\* its clusters gauge at 0 and its snapshot at the endpoints given, in every
\* state after construction; it has no task, and every reader gets the
\* endpoints given.
C9_FixedManager ==
    (mode = "fixed" /\ ctor = "returned") =>
        /\ active_endpoints = Len(config)
        /\ active_clusters = 0
        /\ endpoints = Some(config)
        /\ tpc = "unspawned" /\ chan = <<>> /\ ~rw_writer
        /\ \A r \in Readers :
             rpc[r] = "returned" => ret[r] = Some(UpstreamFrom(config))

\* the test's case, two endpoints, and a reader has read them
C9_Witness ==
    /\ mode = "fixed" /\ ctor = "returned"
    /\ Len(config) = 2 /\ active_endpoints = 2 /\ active_clusters = 0
    /\ \E r \in Readers : rpc[r] = "returned" /\ IsSome(ret[r])

\* C4 as stated: once the shutdown signal has fired, an update sent after
\* the firing (its index in `sent` exceeds fired_at) never changes the
\* snapshot or a gauge.
C4_Original ==
    [][(shutdown = "fired" /\ taken > fired_at) => mgr_vars' = mgr_vars]_vars

\* C4, amended: once the task has returned (the shutdown signal makes it
\* return), the snapshot and both gauges keep the values they had when it
\* returned, and a send on the update channel is refused: nothing is
\* buffered or recorded as sent.  Between the firing and the return the task
\* may still apply updates.
C4_NoChangeAfterReturn ==
    [][exit # "none" => (mgr_vars' = mgr_vars /\ chan' = <<>> /\ sent' = sent)]_vars

\* the task returned on the fired signal after applying an update, the sender
\* is alive and one of its sends was refused
C4_Witness ==
    /\ exit = "shutdown" /\ shutdown = "fired" /\ tx_open /\ send_failed
    /\ Len(installed) >= 1

\* C7 as stated: the task has terminated only if the shutdown signal was
\* fired or the update sender dropped.
C7_Original == tpc = "done" => (shutdown = "fired" \/ ~tx_open)

\* C7, amended: the task has terminated only if the shutdown signal was fired,
\* the shutdown sender was dropped, or the update sender was dropped; it
\* returns from the channel's branch only with the sender dropped and every
\* update sent installed, and from the shutdown branch only with the signal
\* fired or its sender dropped.
C7_TerminatesOnlyOnEvent ==
    /\ (tpc = "done") <=> (exit # "none")
    /\ tpc = "done" => (shutdown # "idle" \/ ~tx_open)
    /\ exit = "closed" => (~tx_open /\ Len(installed) = Len(sent))
    /\ exit = "shutdown" => shutdown # "idle"

\* the task returned although the signal was not fired and the update sender
\* is alive: the shutdown sender was dropped
C7_Witness ==
    /\ tpc = "done" /\ exit = "shutdown" /\ shutdown = "dropped" /\ tx_open

\* the k-th update sent is the one in force: snapshot and gauges are its own
Applied(k) ==
    /\ Len(installed) = k
    /\ IsFlatteningOf(get_all_endpoints(endpoints), sent[k])
    /\ active_endpoints = EndpointCount(sent[k])
    /\ active_clusters = Len(sent[k])

\* the k-th update was sent to a running task and is not installed yet
Pending(k) ==
    /\ mode = "dynamic" /\ tpc \notin {"unspawned", "done"}
    /\ Len(sent) >= k /\ Len(installed) < k

\* C3 as stated: an update sent to a running task is eventually in force,
\* unless the shutdown signal is fired.
C3_Original ==
    \A k \in 1..MaxSends : Pending(k) ~> (Applied(k) \/ shutdown = "fired")

\* C3, amended: an update sent to a running task is eventually in force
\* (the snapshot is its flattening, the gauges its counts), unless the
\* shutdown signal is fired or the shutdown sender is dropped.
C3_EventuallyApplied ==
    \A k \in 1..MaxSends : Pending(k) ~> (Applied(k) \/ shutdown # "idle")

\* the test's case: from (2, 1), the second update gives 3 endpoints and (3, 2)
C3_Witness ==
    /\ mode = "dynamic" /\ config = TestInitialUpdate
    /\ sent # <<>> /\ sent[1] = TestSecondUpdate
    /\ Applied(1) /\ shutdown = "idle"
    /\ Len(Unwrap(endpoints)) = 3 /\ active_endpoints = 3 /\ active_clusters = 2

\* the task was or will be spawned
TaskExists == mode = "dynamic" /\ registry_ok

\* C5: once the shutdown signal is fired the task terminates, also when the
\* producer keeps the channel filled so that the update branch is ready at
\* every select.
C5_ShutdownTerminates ==
    (TaskExists /\ shutdown = "fired") ~> (tpc = "done")

\* the task returned from the shutdown branch with the sender alive, after it
\* went on applying updates
C5_Witness ==
    /\ exit = "shutdown" /\ shutdown = "fired" /\ tx_open
    /\ endpoints # create_endpoints_from_update(config)

\* the snapshot in force: the last one installed, the initial one if none
LastApplied ==
    IF installed = <<>> THEN create_endpoints_from_update(config)
    ELSE installed[Len(installed)]

\* C6: after the update sender is dropped the task terminates; from then on
\* the snapshot is and stays the last one applied, it is not cleared, and
\* get_all_endpoints returns it.
C6_SenderDropTerminates ==
    /\ (TaskExists /\ ~tx_open) ~> (tpc = "done")
    /\ [](tpc = "done" => endpoints = LastApplied)
    /\ [][tpc = "done" => endpoints' = endpoints]_vars
    /\ [][\A r \in FairReaders :
            (tpc = "done" /\ rpc[r] = "locked" /\ rpc'[r] = "returned")
               => ret'[r] = get_all_endpoints(LastApplied)]_vars

\* the channel closed with the signal idle, the last update applied had
\* endpoints, and a reader got them after the task returned
C6_Witness ==
    /\ exit = "closed" /\ shutdown = "idle" /\ Len(installed) >= 1
    /\ IsSome(endpoints)
    /\ \E r \in FairReaders :
         rpc[r] = "returned" /\ ret[r] = get_all_endpoints(endpoints)

\* an Option<Endpoints> that is None or Some of a non-empty list
NoneOrNonEmpty(o) == o = None \/ (IsSome(o) /\ Len(Unwrap(o)) >= 1)

\* C11: in every reachable state of a fixed or dynamic manager the stored
\* snapshot is None or Some of a non-empty endpoint sequence, every snapshot
\* the task installed was so, and get_all_endpoints has never returned Some
\* of an empty collection, whatever updates (empty ones included) were applied.
C11_SnapshotNoneOrNonEmpty ==
    /\ NoneOrNonEmpty(endpoints)
    /\ \A i \in 1..Len(installed) : NoneOrNonEmpty(installed[i])
    /\ \A r \in Readers :
         rpc[r] = "returned" =>
            (ret[r] = None \/ (IsSome(ret[r]) /\ Len(Unwrap(ret[r]).endpoints) >= 1))

\* an update with endpoints and then an empty one were applied: the snapshot
\* is None and a reader was told so
C11_Witness ==
    /\ mode = "dynamic" /\ Len(installed) = 2
    /\ installed[1] # None /\ installed[2] = None
    /\ Positions(sent[2]) = {}
    /\ endpoints = None
    /\ \E r \in Readers : rpc[r] = "returned" /\ ret[r] = None

\* the update in force: the last one installed, the initial one if none
LastUpdate == IF installed = <<>> THEN config ELSE sent[Len(installed)]

\* the size of the current snapshot, 0 when it is None
SnapshotSize == IF IsSome(endpoints) THEN Len(Unwrap(endpoints)) ELSE 0

\* C12: whenever the task of a dynamic manager is at the select or has
\* returned, the clusters gauge is the number of cluster entries of the update
\* applied last (the initial one if none was received) and the endpoints
\* gauge is the size of the current snapshot, 0 when it is None, however many
\* updates were applied before: the gauges are set, not accumulated.
C12_GaugesAreSet ==
    (mode = "dynamic" /\ tpc \in {"select", "done"}) =>
        /\ active_clusters = Len(LastUpdate)
        /\ active_endpoints = SnapshotSize

\* the same update, two clusters and three endpoints, was applied twice
C12_Witness ==
    /\ mode = "dynamic" /\ tpc = "select" /\ Len(installed) = 2
    /\ sent[1] = TestSecondUpdate /\ sent[2] = TestSecondUpdate
    /\ active_clusters = 2 /\ active_endpoints = 3

\* C13: a constructor fails exactly when the registry rejects the gauges,
\* whatever the endpoints: it never fails with an accepting registry and never
\* gets past its first step with a rejecting one; a dynamic manager seeded
\* with an update without endpoints is built with snapshot None; after a
\* failure no handle exists (nobody reads, the snapshot and the gauges are
\* untouched), no task was spawned, and nothing was taken from the channel,
\* whose receiver is gone.
C13_FailsOnlyOnRegistry ==
    /\ ctor = "failed" => ~registry_ok
    /\ ~registry_ok => ctor \in {"start", "failed"}
    /\ (mode = "dynamic" /\ ctor = "returned" /\ taken = 0 /\ Positions(config) = {})
          => endpoints = None
    /\ ctor = "failed" =>
          /\ tpc = "unspawned" /\ exit = "none"
          /\ taken = 0 /\ installed = <<>> /\ chan = <<>>
          /\ endpoints = None /\ active_endpoints = 0 /\ active_clusters = 0
          /\ \A r \in Readers : rpc[r] = "idle"

\* dynamic() failed after updates had been buffered for it, and a later send
\* was refused
C13_Witness ==
    /\ mode = "dynamic" /\ ctor = "failed" /\ ~registry_ok
    /\ sent # <<>> /\ chan = <<>> /\ send_failed /\ tx_open

FlattensToNothing(u) == Positions(u) = {}

\* C16: an update that flattens to no endpoint is applied like any other:
\* the snapshot installed for it is None, finishing its installation takes
\* the task back to the select (it has not returned), and while it is the
\* update in force the snapshot is None, a reader gets None, the endpoints
\* gauge is 0 and the clusters gauge is its number of cluster entries; the
\* snapshot installed for a later update with endpoints is Some again.
C16_EmptyUpdateApplied ==
    /\ [](mode = "dynamic" =>
            \A k \in 1..Len(installed) :
                IF FlattensToNothing(sent[k]) THEN installed[k] = None
                ELSE IsSome(installed[k]))
    /\ []((mode = "dynamic" /\ installed # <<>> /\ tpc \in {"select", "done"}
              /\ FlattensToNothing(LastUpdate)) =>
            /\ endpoints = None
            /\ get_all_endpoints(endpoints) = None
            /\ active_endpoints = 0
            /\ active_clusters = Len(LastUpdate))
    /\ [][(tpc = "writing" /\ tpc' # "writing" /\ FlattensToNothing(Unwrap(update))) =>
            (tpc' = "select" /\ exit' = "none" /\ endpoints' = None)]_vars
    /\ [][\A r \in Readers :
            (mode = "dynamic" /\ installed # <<>> /\ tpc \in {"select", "done"}
               /\ FlattensToNothing(LastUpdate)
               /\ rpc[r] = "locked" /\ rpc'[r] = "returned") => ret'[r] = None]_vars

\* after the update with an empty locality was applied, the update with
\* endpoints was, and a reader got endpoints again
C16_Witness ==
    /\ mode = "dynamic" /\ Len(installed) = 2 /\ tpc = "select"
    /\ sent[1] = EmptyLocalityUpdate /\ installed[1] = None
    /\ ~FlattensToNothing(sent[2]) /\ IsSome(endpoints)
    /\ \E r \in Readers :
         rpc[r] = "returned" /\ IsSome(ret[r])
           /\ IsFlatteningOf(ret[r], sent[2])

\* C17: the writer bit is set exactly between the task's write() and the end
\* of the replacement, so the task is never at the select (nor unspawned or
\* returned) with the lock; while the replacement is under way no read guard
\* is alive, the count of read guards being the number of readers under
\* their guard; after construction the snapshot changes only under the
\* exclusive lock; and a step of the task that writes a gauge starts and ends
\* with the lock not held.
C17_LockDiscipline ==
    /\ [](rw_writer <=> tpc \in {"wait_readers", "writing"})
    /\ [](tpc \in {"unspawned", "select", "done"} => ~rw_writer)
    /\ [](rw_readers = Cardinality({r \in Readers : rpc[r] = "locked"}))
    /\ [](tpc = "writing" => rw_readers = 0)
    /\ [][(endpoints' # endpoints /\ ctor # "start") => (rw_writer /\ rw_readers = 0)]_vars
    /\ [][(tpc \in {"set_clusters", "set_endpoints"} /\ tpc' # tpc) =>
            (~rw_writer /\ ~rw_writer')]_vars
    /\ [][(tpc # "unspawned"
             /\ (active_clusters' # active_clusters
                   \/ active_endpoints' # active_endpoints)) =>
            (tpc \in {"set_clusters", "set_endpoints"} /\ ~rw_writer /\ ~rw_writer')]_vars

\* the task is replacing the snapshot under the lock while an update waits
\* in the channel, the shutdown signal is fired and a reader has returned
C17_Witness ==
    /\ tpc = "writing" /\ rw_writer /\ rw_readers = 0
    /\ chan # <<>> /\ shutdown = "fired"
    /\ \E r \in Readers : rpc[r] = "returned"

\* the update the manager had before the one the task took last
PrevTaken == IF taken = 1 THEN config ELSE sent[taken - 1]

\* C18: for the update the task took last, the clusters gauge is written
\* before the endpoints gauge: with only the first write done the clusters
\* gauge is the update's and the endpoints gauge the previous update's, and
\* from the second write until the next update is taken both are the
\* update's; so whenever the endpoints gauge shows the count of that update,
\* the count differing from the previous update's, the clusters gauge shows
\* that update's number of clusters.
C18_ClustersWrittenFirst ==
    (mode = "dynamic" /\ taken >= 1) =>
        LET cur == sent[taken]
            prev == PrevTaken
        IN  /\ tpc = "set_clusters" =>
                 /\ active_clusters = Len(prev)
                 /\ active_endpoints = EndpointCount(prev)
            /\ tpc = "set_endpoints" =>
                 /\ active_clusters = Len(cur)
                 /\ active_endpoints = EndpointCount(prev)
            /\ tpc \notin {"set_clusters", "set_endpoints"} =>
                 /\ active_clusters = Len(cur)
                 /\ active_endpoints = EndpointCount(cur)
            /\ (EndpointCount(cur) # EndpointCount(prev)
                  /\ active_endpoints = EndpointCount(cur))
                 => active_clusters = Len(cur)

\* the test's observation: the endpoints gauge shows 3, the clusters gauge 2,
\* and the snapshot still is the initial update's two endpoints
C18_Witness ==
    /\ mode = "dynamic" /\ taken = 1 /\ tpc = "write_lock"
    /\ config = TestInitialUpdate /\ update = Some(TestSecondUpdate)
    /\ active_endpoints = 3 /\ active_clusters = 2
    /\ Len(Unwrap(endpoints)) = 2

\* both gauges show the counts of update u
GaugesOf(u) ==
    /\ active_clusters = Len(u)
    /\ active_endpoints = EndpointCount(u)

\* C19: with k updates installed, the snapshot is the flattening of the k-th
\* (of the initial one for k = 0) until its replacement starts, the task has
\* taken k or k+1 updates, each gauge shows the count of the k-th or of the
\* (k+1)-th update, never of an older one, and both show the (k+1)-th's from
\* the moment the task asks for the lock, before the snapshot is replaced;
\* the gauges differ from the counts of the snapshot's update only while the
\* task is between its first gauge write and the end of the replacement for
\* that one update k+1.
C19_GaugesNeverLag ==
    (mode = "dynamic" /\ tpc # "unspawned") =>
        LET k == Len(installed)
            cur == LastUpdate
        IN  /\ tpc # "writing" => IsFlatteningOf(get_all_endpoints(endpoints), cur)
            /\ taken \in {k, k + 1}
            /\ taken = k => GaugesOf(cur)
            /\ taken = k + 1 =>
                 /\ active_clusters \in {Len(cur), Len(sent[k + 1])}
                 /\ active_endpoints
                      \in {EndpointCount(cur), EndpointCount(sent[k + 1])}
                 /\ tpc \in {"write_lock", "wait_readers", "writing"}
                      => GaugesOf(sent[k + 1])
            /\ ~GaugesOf(cur) =>
                 /\ taken = k + 1
                 /\ tpc \in {"set_endpoints", "write_lock", "wait_readers", "writing"}

\* the second update taken has its counts, 0 endpoints and 1 cluster, in the
\* gauges while the snapshot still holds the three endpoints of the first
C19_Witness ==
    /\ mode = "dynamic" /\ Len(installed) = 1 /\ taken = 2 /\ tpc = "write_lock"
    /\ sent[1] = TestSecondUpdate /\ sent[2] = EmptyLocalityUpdate
    /\ active_endpoints = 0 /\ active_clusters = 1
    /\ Len(Unwrap(endpoints)) = 3

\* the update sender is gone, updates it sent are buffered for a task that
\* has not returned
DroppedWithBuffered == TaskExists /\ tpc # "done" /\ ~tx_open /\ chan # <<>>

\* the task returned on the closure with the last update sent in force
ClosedOnLastSent ==
    /\ tpc = "done" /\ exit = "closed"
    /\ sent # <<>> /\ Applied(Len(sent))

\* C20 as stated: when the sender is dropped with updates buffered, the task
\* ends on the closure with the last update sent in force, unless the
\* shutdown signal is fired.
C20_Original == DroppedWithBuffered ~> (ClosedOnLastSent \/ shutdown = "fired")

\* C20, amended: when the sender is dropped with updates buffered, the task
\* ends on the closure with the last update sent in force (snapshot and both
\* gauges are its own), unless the shutdown signal is fired or the shutdown
\* sender is dropped; and whenever the task has returned on the closure,
\* every update sent was taken and installed, in the order sent.
C20_DrainsBeforeClosing ==
    /\ DroppedWithBuffered ~> (ClosedOnLastSent \/ shutdown # "idle")
    /\ [](exit = "closed" =>
            /\ taken = Len(sent) /\ Len(installed) = Len(sent)
            /\ \A i \in 1..Len(sent) :
                 installed[i] = create_endpoints_from_update(sent[i])
            /\ sent # <<>> => Applied(Len(sent)))

\* the task returned on the closure after every update sent, the last of
\* them the one with an empty locality: no snapshot, gauges 0 and 1
C20_Witness ==
    /\ exit = "closed" /\ shutdown = "idle" /\ Len(sent) = MaxSends
    /\ sent[Len(sent)] = EmptyLocalityUpdate /\ sent[1] = TestSecondUpdate
    /\ Applied(Len(sent))
    /\ endpoints = None /\ active_endpoints = 0 /\ active_clusters = 1

(***************************************************************************)
(* Claims about FilterSet.                                                 *)
(***************************************************************************)
\* the sequence of factories the builder hands to from_iter
FilterInput == (IF fs_defaults THEN DefaultFactories ELSE <<>>) \o fs_provided

NamesOf(S) == {S[i].name : i \in 1..Len(S)}

\* the last factory of S that carries name n
LastWith(S, n) ==
    S[CHOOSE i \in 1..Len(S) :
         S[i].name = n /\ \A j \in (i + 1)..Len(S) : S[j].name # n]

Retained(S) == {LastWith(S, n) : n \in NamesOf(S)}

ValuesOf(map) == {e[2] : e \in map}

\* C15: a FilterSet built from a sequence of factories holds one factory per
\* distinct name of the sequence, the last one carrying it, under that name;
\* so default_with holds the seven defaults and the provided factories, a
\* provided one taking the place of the default of its name and the last
\* provided one of a name winning; and the iterator yields every retained
\* factory once and nothing else, what it has yielded and what it has left
\* making up the retained factories at every step.
C15_LastFactoryPerName ==
    /\ fs_pc = "built" =>
         /\ ValuesOf(fs_map) = Retained(FilterInput)
         /\ \A e \in fs_map : e[1] = e[2].name
         /\ Cardinality(fs_map) = Cardinality(NamesOf(FilterInput))
         /\ fs_defaults =>
              /\ Len(DefaultFactories) = 7
              /\ Cardinality(fs_map)
                   = 7 + Cardinality(NamesOf(fs_provided) \ NamesOf(DefaultFactories))
              /\ \A i \in 1..Len(DefaultFactories) :
                   IF DefaultNames[i] \in NamesOf(fs_provided)
                   THEN <<DefaultNames[i], DefaultFactories[i]>> \notin fs_map
                   ELSE <<DefaultNames[i], DefaultFactories[i]>> \in fs_map
              /\ \A n \in NamesOf(fs_provided) :
                   <<n, LastWith(fs_provided, n)>> \in fs_map
    /\ fs_pc \in {"iter", "done"} =>
         /\ \A f \in BagToSet(fs_out) : CopiesIn(f, fs_out) = 1
         /\ BagToSet(fs_out) \cup ValuesOf(fs_inner) = Retained(FilterInput)
         /\ BagToSet(fs_out) \cap ValuesOf(fs_inner) = {}
    /\ fs_pc = "done" =>
         /\ BagToSet(fs_out) = Retained(FilterInput)
         /\ BagCardinality(fs_out) = Cardinality(NamesOf(FilterInput))

\* default_with was given two factories named as the Debug default and a
\* custom one: the iterator has yielded eight factories, the second Debug
\* provided among them and neither the first nor the default
C15_Witness ==
    /\ fs_pc = "done" /\ fs_defaults /\ Len(fs_provided) = 3
    /\ fs_provided[1].name = "Debug" /\ fs_provided[2].name = "Debug"
    /\ fs_provided[1] # fs_provided[2]
    /\ fs_provided[3].name = "Custom"
    /\ BagCardinality(fs_out) = 8
    /\ CopiesIn(fs_provided[2], fs_out) = 1
    /\ CopiesIn(fs_provided[1], fs_out) = 0
    /\ CopiesIn(DefaultFactories[1], fs_out) = 0

=============================================================================
